---------------------------- MODULE Spec2Model ----------------------------
(***************************************************************************)
(* MutualGuide: the training program (train.py) and the evaluation program *)
(* (test.py) as state machines.                                            *)
(*                                                                         *)
(* train.py is modelled as a sequence of process runs over one checkpoint  *)
(* folder: a run is started fresh or with --resume_ckpt naming a file a    *)
(* previous run left on disk, it executes the statements of __main__ one   *)
(* at a time, and it ends by finishing, by an uncaught exception, or by    *)
(* being terminated from outside.  test.py is modelled as one run of its   *)
(* evaluation loop.                                                        *)
(*                                                                         *)
(* Specifications: TrainSpec and FairTrainSpec (train.py under the default *)
(* names), TestSpec (test.py), LoadSpec (train.py with one more file to    *)
(* resume from), DatasetSpec (both programs under every dataset name) and  *)
(* PathSpec (the file names both programs build).                          *)
(***************************************************************************)
EXTENDS Integers, Sequences, FiniteSets, TLC

(***************************************************************************)
(* Bounds of the model.                                                    *)
(***************************************************************************)
MaxLen == 3
MaxBatch == 2
MaxEpoch == 2
MaxRuns == 2
MaxOverflowIter == 1
MaxImages == 11
NumClasses == 2
MaxDets == 2
MaxScore == 2
MaxColour == 1
MaxNameLen == 2
MaxSize == 1

\* A Python name that is not bound yet (reading it raises NameError).
Unbound == -1

VARIABLES
    \* ---- train.py ----
    args,         \* the parsed configuration (constant during a behaviour)
    disk,         \* the files of save_folder, by suffix
    run,          \* number of training processes started so far
    status,       \* "idle" | "running" | "done" | "crashed" | "killed"
    error,        \* name of the uncaught exception of a crashed run
    pc,           \* the statement the running process executes next
    resume_ckpt,  \* args.resume_ckpt: "None" or the suffix of the file
    state_dict,   \* what torch.load returned in the resume block
    start_iter, epoch_size, end_iter,
    next_it,      \* position of the range(start_iter, end_iter) iterator
    iteration,    \* the loop variable, Unbound before its first assignment
    model,        \* live weights
    ema,          \* ema_model.ema
    optimizer,    \* optimizer.state_dict()
    prefetcher,   \* batches left in the DataPrefetcher, Unbound before it exists
    train_mode,   \* model.training
    grads_finite, \* whether the gradients of the last backward are finite
    tosave,       \* the dict save_model hands to torch.save
    events,       \* history: the statements executed by the current run
    \* ---- test.py ----
    test_args,    \* the parsed configuration and the test set
    test_status,  \* "idle" | "running" | "done" | "crashed"
    test_error,   \* name of the uncaught exception of a crashed evaluation
    test_pc,      \* the statement the evaluation executes next
    next_i,       \* position of the range(num_images) iterator
    i,            \* the image index, Unbound before its first assignment
    all_boxes,    \* all_boxes[j][i], classes and images counted from 0
    box_matcher,  \* the SeqBoxMatcher, if one was constructed
    rgbs,         \* the colour of each class drawn so far
    boxes_scores, \* the variables boxes and scores of the current image
    fed,          \* history: boxes and scores as thresholded, per image
    matcher_log,  \* history: the calls of box_matcher.update
    scorer_log,   \* history: the arguments of evaluate_detections
    test_events,  \* history: the statements executed by the evaluation
    \* ---- file names ----
    name_args,    \* the fields of args that go into file names
    save_path,    \* the path save_model built last, and for which suffix
    trained_model \* args.trained_model of test.py, empty while it is None

trainVars == <<args, disk, run, status, error, pc, resume_ckpt, state_dict,
               start_iter, epoch_size, end_iter, next_it, iteration, model,
               ema, optimizer, prefetcher, train_mode, grads_finite, tosave,
               events>>

testVars == <<test_args, test_status, test_error, test_pc, next_i, i,
              all_boxes, box_matcher, rgbs, boxes_scores, fed, matcher_log,
              scorer_log, test_events>>

pathVars == <<name_args, save_path, trained_model>>

vars == <<trainVars, testVars, pathVars>>

(***************************************************************************)
(* Weights.  The numeric content of a parameter set is not needed, only    *)
(* its identity: a value is the term that built it.                        *)
(***************************************************************************)
\* Detector(...) under the fixed seed: the same initial weights in every run.
InitWeights == <<>>

\* optimizer.step() on finite gradients: new live weights.
OptimizerStep(w) == <<w>>

\* ModelEMA(model): a deep, independent copy of the live parameters.
ModelEMA(w) == w

\* ema_model.update(model): ema * decay + live * (1 - decay).
EmaUpdate(e, w) == <<e, w>>

\* optim.SGD(...): no step taken, learning rate not adjusted yet.
NewOptimizer == [steps |-> 0, lr_iter |-> Unbound]

(***************************************************************************)
(* Files.                                                                  *)
(***************************************************************************)
Suffixes == {"CKPT", "Final"}

Absent == [state |-> "absent"]
Partial == [state |-> "partial"]
Checkpoint(m, o, it) ==
    [state |-> "complete", model |-> m, optimizer |-> o, iteration |-> it]

NoTosave == [state |-> "none"]

Event(op) == [op |-> op, it |-> iteration]

(***************************************************************************)
(* Initial state: nothing has run, the save folder is empty.               *)
(***************************************************************************)
Configs ==
    [len_dataset : 0..MaxLen, batch_size : 1..MaxBatch,
     max_epoch : 0..MaxEpoch, overflow_iter : Unbound..MaxOverflowIter]

\* The variables of a process: what a fresh interpreter holds.
NoProcess ==
    /\ error = "None"
    /\ pc = "none"
    /\ resume_ckpt = "None"
    /\ state_dict = Absent
    /\ start_iter = Unbound
    /\ epoch_size = Unbound
    /\ end_iter = Unbound
    /\ next_it = Unbound
    /\ iteration = Unbound
    /\ model = InitWeights
    /\ ema = InitWeights
    /\ optimizer = NewOptimizer
    /\ prefetcher = Unbound
    /\ train_mode = FALSE
    /\ grads_finite = TRUE
    /\ tosave = NoTosave
    /\ events = <<>>

\* The variables of test.py before the evaluation program has started.
NoMatcher == [exists |-> FALSE]

NoEvaluation ==
    /\ test_status = "idle"
    /\ test_error = "None"
    /\ test_pc = "none"
    /\ next_i = Unbound
    /\ i = Unbound
    /\ all_boxes = <<>>
    /\ box_matcher = NoMatcher
    /\ rgbs = <<>>
    /\ boxes_scores = [boxes |-> <<>>, scores |-> <<>>]
    /\ fed = <<>>
    /\ matcher_log = <<>>
    /\ scorer_log = <<>>
    /\ test_events = <<>>

(***************************************************************************)
(* File names.  Text is a sequence of characters, so that what             *)
(* str.format and os.path.join build can be compared character by          *)
(* character.  name_args holds the fields of the parsed configuration that *)
(* both programs put into file names; in TrainSpec and TestSpec it is the  *)
(* one configuration DefaultNames, and disk[suffix] is the file            *)
(* SavePath(name_args, suffix).                                            *)
(***************************************************************************)
T_COCO == <<"C", "O", "C", "O">>
T_VOC == <<"V", "O", "C">>
T_XML == <<"X", "M", "L">>
T_LVIS == <<"L", "V", "I", "S">>
T_combined == <<"c", "o", "m", "b", "i", "n", "e", "d">>
T_Retina == <<"R", "e", "t", "i", "n", "a">>
T_True == <<"T", "r", "u", "e">>
T_False == <<"F", "a", "l", "s", "e">>
T_size == <<"s", "i", "z", "e">>
T_anchor == <<"a", "n", "c", "h", "o", "r">>
T_pth == <<".", "p", "t", "h">>
T_CKPT == <<"C", "K", "P", "T">>
T_Final == <<"F", "i", "n", "a", "l">>
T_sep == <<"_">>

\* The dataset identifiers the programs know, and one they do not.
KnownDatasets == {T_COCO, T_VOC, T_XML}
Datasets == KnownDatasets \cup {T_LVIS}

\* The characters of the neck and backbone names of the model.
NameChars == {"a", "_"}
NameTexts == UNION {[1..n -> NameChars] : n \in 1..MaxNameLen}

\* image_size and anchor_size: one-digit and several-digit numbers.
Sizes == {10 * s + 1 : s \in 0..MaxSize}

Folders == {<<"w">>}

NameConfigs ==
    [save_folder : Folders, dataset : KnownDatasets, neck : NameTexts,
     backbone : NameTexts, image_size : Sizes, anchor_size : Sizes,
     mutual_guide : BOOLEAN]

DefaultNames ==
    [save_folder |-> <<"w">>, dataset |-> T_COCO, neck |-> <<"a">>,
     backbone |-> <<"a">>, image_size |-> 1, anchor_size |-> 1,
     mutual_guide |-> TRUE]

NoSavePath == [suffix |-> "None", path |-> <<>>]

DigitChars == <<"0", "1", "2", "3", "4", "5", "6", "7", "8", "9">>

\* "{}".format(n) of a natural number: its decimal digits.
RECURSIVE FormatInt(_)
FormatInt(n) ==
    IF n < 10
    THEN <<DigitChars[n + 1]>>
    ELSE FormatInt(n \div 10) \o <<DigitChars[(n % 10) + 1]>>

\* "{}".format(b) of a bool.
FormatBool(b) == IF b THEN T_True ELSE T_False

\* The suffix argument of save_model as text.
SuffixText(suffix) == IF suffix = "CKPT" THEN T_CKPT ELSE T_Final

\* os.path.join(folder, name), folder not empty and without trailing slash.
PathJoin(folder, name) == folder \o <<"/">> \o name

\* "combined" if args.mutual_guide else "Retina"
LossMode(a) == IF a.mutual_guide THEN T_combined ELSE T_Retina

\* save_model, lines 59-70: the path the checkpoint is written to.
SavePath(a, suffix) ==
    PathJoin(a.save_folder,
             a.dataset \o T_sep \o a.neck \o T_sep \o a.backbone \o T_sep
             \o T_size \o FormatInt(a.image_size) \o T_sep
             \o T_anchor \o FormatInt(a.anchor_size) \o T_sep
             \o LossMode(a) \o T_sep \o SuffixText(suffix) \o T_pth)

\* test.py, lines 77-88: the path used when --trained_model is not given.
DefaultTrainedModel(a) ==
    PathJoin(a.save_folder,
             a.dataset \o T_sep \o a.neck \o T_sep \o a.backbone \o T_sep
             \o T_size \o FormatInt(a.image_size) \o T_sep
             \o T_anchor \o FormatInt(a.anchor_size) \o T_sep
             \o FormatBool(a.mutual_guide) \o T_sep \o T_Final \o T_pth)

\* Faulty variant of IsKnownDataset: any name falls through to a dataset.
IsKnownDatasetAny(d) == TRUE

\* train.py lines 96-105, test.py lines 56-64: the if/elif chain on
\* args.dataset; the else branch raises NotImplementedError.
IsKnownDataset(d) == d \in KnownDatasets

NoPaths ==
    /\ name_args = DefaultNames
    /\ save_path = NoSavePath
    /\ trained_model = <<>>

TrainInit ==
    /\ args \in Configs
    /\ disk = [s \in Suffixes |-> Absent]
    /\ run = 0
    /\ status = "idle"
    /\ NoProcess
    /\ test_args = [num_images |-> 0, seq_matcher |-> FALSE, vis |-> FALSE,
                    eval_thresh |-> 0, seed_dets |-> 0, seed_score |-> 0]
    /\ NoEvaluation
    /\ NoPaths

(***************************************************************************)
(* Process start, lines 82-149: configuration, dataset, network, EMA,      *)
(* optimizer, and the resume block.  A run that raises here stops with pc  *)
(* at the part that raised: "dataset" (lines 95-105) or "resume" (lines    *)
(* 127-134); the network is built after the first and before the second.   *)
(***************************************************************************)
\* Faulty variant of EpochSize: the division by the batch size is missing.
EpochSizeInImages(a) == a.len_dataset

\* epoch_size = len(dataset) // args.batch_size
EpochSize(a) == a.len_dataset \div a.batch_size

\* end_iter = epoch_size * args.max_epoch
EndIter(a) == EpochSize(a) * a.max_epoch

\* Faulty variant of ResumeStartIter: the stored iteration is ignored.
ResumeStartIterZero(sd) == 0

\* start_iter = state_dict["iteration"]
ResumeStartIter(sd) == sd.iteration

\* model.load_state_dict(state_dict["model"], strict=True)
ResumeModel(sd) == sd.model

\* optimizer.load_state_dict(state_dict["optimizer"])
ResumeOptimizer(sd) == sd.optimizer

\* The keys the resume block reads, in the order it reads them.
ResumeKeys == <<"model", "optimizer", "iteration">>

\* Faulty variant of ResumeBlock: a missing key is read with a default
\* (the value the name had before the block) and nothing is raised.
ResumeBlockLenient(sd) ==
    [error |-> "None",
     model |-> IF "model" \in DOMAIN sd THEN sd.model ELSE InitWeights,
     optimizer |-> IF "optimizer" \in DOMAIN sd
                   THEN sd.optimizer
                   ELSE NewOptimizer,
     start_iter |-> IF "iteration" \in DOMAIN sd THEN sd.iteration ELSE 0]

\* lines 130-132 on the structure sd that torch.load returned: the three
\* subscripts in program order; the first missing key raises KeyError and
\* leaves the later assignments undone.
ResumeBlock(sd) ==
    IF ResumeKeys[1] \notin DOMAIN sd
    THEN [error |-> "KeyError", model |-> InitWeights,
          optimizer |-> NewOptimizer, start_iter |-> Unbound]
    ELSE IF ResumeKeys[2] \notin DOMAIN sd
    THEN [error |-> "KeyError", model |-> ResumeModel(sd),
          optimizer |-> NewOptimizer, start_iter |-> Unbound]
    ELSE IF ResumeKeys[3] \notin DOMAIN sd
    THEN [error |-> "KeyError", model |-> ResumeModel(sd),
          optimizer |-> ResumeOptimizer(sd), start_iter |-> Unbound]
    ELSE [error |-> "None", model |-> ResumeModel(sd),
          optimizer |-> ResumeOptimizer(sd),
          start_iter |-> ResumeStartIter(sd)]

Ended == status \in {"idle", "done", "crashed", "killed"}

\* The files a user can name as --resume_ckpt.
Resumable == {s \in DOMAIN disk : disk[s].state # "absent"}

StartRun(r) ==
    /\ Ended
    /\ run < MaxRuns
    /\ run' = run + 1
    /\ resume_ckpt' = r
    /\ iteration' = Unbound
    /\ prefetcher' = Unbound
    /\ train_mode' = FALSE
    /\ grads_finite' = TRUE
    /\ tosave' = NoTosave
    /\ events' = <<>>
    /\ IF ~IsKnownDataset(name_args.dataset)
       THEN \* line 105, before len(dataset) and Detector(...)
            /\ epoch_size' = Unbound
            /\ end_iter' = Unbound
            /\ ema' = InitWeights
            /\ state_dict' = Absent
            /\ model' = InitWeights
            /\ optimizer' = NewOptimizer
            /\ start_iter' = Unbound
            /\ next_it' = Unbound
            /\ status' = "crashed"
            /\ error' = "NotImplementedError"
            /\ pc' = "dataset"
       ELSE IF r = "None"
       THEN /\ epoch_size' = EpochSize(args)
            /\ end_iter' = EndIter(args)
            /\ ema' = ModelEMA(InitWeights)
            /\ state_dict' = Absent
            /\ model' = InitWeights
            /\ optimizer' = NewOptimizer
            /\ start_iter' = 0
            /\ next_it' = 0
            /\ status' = "running"
            /\ error' = "None"
            /\ pc' = "for"
       ELSE IF disk[r].state = "partial"
       THEN \* torch.load fails on a truncated file
            /\ epoch_size' = EpochSize(args)
            /\ end_iter' = EndIter(args)
            /\ ema' = ModelEMA(InitWeights)
            /\ state_dict' = Absent
            /\ model' = InitWeights
            /\ optimizer' = NewOptimizer
            /\ start_iter' = Unbound
            /\ next_it' = Unbound
            /\ status' = "crashed"
            /\ error' = "UnpicklingError"
            /\ pc' = "resume"
       ELSE /\ epoch_size' = EpochSize(args)
            /\ end_iter' = EndIter(args)
            /\ ema' = ModelEMA(InitWeights)
            /\ state_dict' = disk[r]
            /\ model' = ResumeBlock(disk[r]).model
            /\ optimizer' = ResumeBlock(disk[r]).optimizer
            /\ start_iter' = ResumeBlock(disk[r]).start_iter
            /\ next_it' = ResumeBlock(disk[r]).start_iter
            /\ IF ResumeBlock(disk[r]).error = "None"
               THEN /\ status' = "running"
                    /\ error' = "None"
                    /\ pc' = "for"
               ELSE /\ status' = "crashed"
                    /\ error' = ResumeBlock(disk[r]).error
                    /\ pc' = "resume"
    /\ UNCHANGED <<args, disk>>
    /\ UNCHANGED <<testVars, pathVars>>

Start == \E r \in {"None"} \cup Resumable : StartRun(r)

\* An uncaught exception ends the process where it stands.
Raise(err) ==
    /\ status' = "crashed"
    /\ error' = err
    /\ UNCHANGED <<args, disk, run, pc, resume_ckpt, state_dict, start_iter,
                   epoch_size, end_iter, next_it, iteration, model, ema,
                   optimizer, prefetcher, train_mode, grads_finite, tosave,
                   events>>

(***************************************************************************)
(* The loop header, line 150: for iteration in range(start_iter, end_iter) *)
(***************************************************************************)
ForNext ==
    /\ status = "running"
    /\ pc = "for"
    /\ IF next_it < end_iter
       THEN /\ iteration' = next_it
            /\ next_it' = next_it + 1
            /\ pc' = "epoch_check"
       ELSE /\ pc' = "save_final"
            /\ UNCHANGED <<iteration, next_it>>
    /\ UNCHANGED <<args, disk, run, status, error, resume_ckpt, state_dict,
                   start_iter, epoch_size, end_iter, model, ema, optimizer,
                   prefetcher, train_mode, grads_finite, tosave, events>>
    /\ UNCHANGED <<testVars, pathVars>>

\* Faulty variant of IsEpochBoundary: the boundary is taken one iteration early.
IsEpochBoundaryEarly(it, es) == (it + 1) % es = 0

\* line 151: iteration % epoch_size == 0
IsEpochBoundary(it, es) == it % es = 0

\* Faulty variant of TrainingSteps: the EMA is updated before the optimizer step.
TrainingStepsEmaFirst ==
    <<"adjust_lr", "fetch", "forward", "zero_grad", "backward",
      "ema_update", "scaler_step", "scaler_update", "logging">>

\* lines 167-187: the statements of one training iteration, in program order.
TrainingSteps ==
    <<"adjust_lr", "fetch", "forward", "zero_grad", "backward",
      "scaler_step", "scaler_update", "ema_update", "logging">>

StepIndex(op) == CHOOSE k \in 1..Len(TrainingSteps) : TrainingSteps[k] = op

\* The statement that follows op; the loop header follows the last one.
NextPc(op) ==
    IF StepIndex(op) = Len(TrainingSteps)
    THEN "for"
    ELSE TrainingSteps[StepIndex(op) + 1]

EpochCheck ==
    /\ status = "running"
    /\ pc = "epoch_check"
    /\ IF epoch_size = 0
       THEN Raise("ZeroDivisionError")
       ELSE /\ pc' = IF IsEpochBoundary(iteration, epoch_size)
                     THEN "save_ckpt"
                     ELSE TrainingSteps[1]
            /\ UNCHANGED <<args, disk, run, status, error, resume_ckpt,
                           state_dict, start_iter, epoch_size, end_iter,
                           next_it, iteration, model, ema, optimizer,
                           prefetcher, train_mode, grads_finite, tosave,
                           events>>
    /\ UNCHANGED <<testVars, pathVars>>

(***************************************************************************)
(* save_model, lines 53-78.  torch.save(tosave, save_path) opens the file  *)
(* at save_path for writing, which truncates what was there, and the file  *)
(* holds the checkpoint only once the write has finished.                  *)
(***************************************************************************)
\* The weights both call sites pass: ema_model.ema (lines 154 and 205).
SavedWeights == ema

\* lines 58-76 and the opening of the file by torch.save
SaveModelOpen(m, it, suffix) ==
    /\ tosave' = Checkpoint(m, optimizer, it)
    /\ disk' = [disk EXCEPT ![suffix] = Partial]

\* torch.save returns: the file is complete
SaveModelClose(suffix) ==
    /\ disk' = [disk EXCEPT ![suffix] = tosave]
    /\ tosave' = NoTosave

\* line 154, first half
SaveCkptOpen ==
    /\ status = "running"
    /\ pc = "save_ckpt"
    /\ SaveModelOpen(SavedWeights, iteration, "CKPT")
    /\ pc' = "saving_ckpt"
    /\ events' = Append(events, Event("save_ckpt"))
    /\ UNCHANGED <<args, run, status, error, resume_ckpt, state_dict,
                   start_iter, epoch_size, end_iter, next_it, iteration,
                   model, ema, optimizer, prefetcher, train_mode,
                   grads_finite>>
    /\ UNCHANGED <<testVars, pathVars>>

\* line 154, second half
SaveCkptClose ==
    /\ status = "running"
    /\ pc = "saving_ckpt"
    /\ SaveModelClose("CKPT")
    /\ pc' = "new_prefetcher"
    /\ UNCHANGED <<args, run, status, error, resume_ckpt, state_dict,
                   start_iter, epoch_size, end_iter, next_it, iteration,
                   model, ema, optimizer, prefetcher, train_mode,
                   grads_finite, events>>
    /\ UNCHANGED <<testVars, pathVars>>

\* len(rand_loader): DataLoader keeps the last, smaller batch
\* Faulty variant of NumBatches: the loader drops the last, smaller batch.
NumBatchesDropLast(a) == a.len_dataset \div a.batch_size

\* len(rand_loader) of lines 157-163 (drop_last is not set): ceil(len/batch)
NumBatches(a) == (a.len_dataset + a.batch_size - 1) \div a.batch_size

\* lines 157-164
NewPrefetcher ==
    /\ status = "running"
    /\ pc = "new_prefetcher"
    /\ prefetcher' = NumBatches(args)
    /\ pc' = "model_train"
    /\ events' = Append(events, Event("new_prefetcher"))
    /\ UNCHANGED <<args, disk, run, status, error, resume_ckpt, state_dict,
                   start_iter, epoch_size, end_iter, next_it, iteration,
                   model, ema, optimizer, train_mode, grads_finite, tosave>>
    /\ UNCHANGED <<testVars, pathVars>>

\* line 165
ModelTrain ==
    /\ status = "running"
    /\ pc = "model_train"
    /\ train_mode' = TRUE
    /\ pc' = TrainingSteps[1]
    /\ events' = Append(events, Event("model_train"))
    /\ UNCHANGED <<args, disk, run, status, error, resume_ckpt, state_dict,
                   start_iter, epoch_size, end_iter, next_it, iteration,
                   model, ema, optimizer, prefetcher, grads_finite, tosave>>
    /\ UNCHANGED <<testVars, pathVars>>

(***************************************************************************)
(* One training iteration, lines 167-202.                                  *)
(***************************************************************************)
\* The statement op runs now and the one after it runs next.
Advance(op) ==
    /\ status = "running"
    /\ pc = op
    /\ pc' = NextPc(op)
    /\ events' = Append(events, Event(op))
    /\ UNCHANGED <<testVars, pathVars>>

\* lines 169-175
AdjustLR ==
    /\ Advance("adjust_lr")
    /\ optimizer' = [optimizer EXCEPT !.lr_iter = iteration]
    /\ UNCHANGED <<args, disk, run, status, error, resume_ckpt, state_dict,
                   start_iter, epoch_size, end_iter, next_it, iteration,
                   model, ema, prefetcher, train_mode, grads_finite, tosave>>

\* line 176
Fetch ==
    /\ status = "running"
    /\ pc = "fetch"
    /\ IF prefetcher = Unbound
       THEN Raise("NameError")
       ELSE IF prefetcher = 0
       THEN Raise("Exhausted")
       ELSE /\ prefetcher' = prefetcher - 1
            /\ pc' = NextPc("fetch")
            /\ events' = Append(events, Event("fetch"))
            /\ UNCHANGED <<args, disk, run, status, error, resume_ckpt,
                           state_dict, start_iter, epoch_size, end_iter,
                           next_it, iteration, model, ema, optimizer,
                           train_mode, grads_finite, tosave>>
    /\ UNCHANGED <<testVars, pathVars>>

\* lines 178-180
Forward ==
    /\ Advance("forward")
    /\ UNCHANGED <<args, disk, run, status, error, resume_ckpt, state_dict,
                   start_iter, epoch_size, end_iter, next_it, iteration,
                   model, ema, optimizer, prefetcher, train_mode,
                   grads_finite, tosave>>

\* line 182
ZeroGrad ==
    /\ Advance("zero_grad")
    /\ UNCHANGED <<args, disk, run, status, error, resume_ckpt, state_dict,
                   start_iter, epoch_size, end_iter, next_it, iteration,
                   model, ema, optimizer, prefetcher, train_mode,
                   grads_finite, tosave>>

\* line 183: the scaled loss overflows at iteration args.overflow_iter
Backward ==
    /\ Advance("backward")
    /\ grads_finite' = (iteration # args.overflow_iter)
    /\ UNCHANGED <<args, disk, run, status, error, resume_ckpt, state_dict,
                   start_iter, epoch_size, end_iter, next_it, iteration,
                   model, ema, optimizer, prefetcher, train_mode, tosave>>

\* Faulty variant of ScalerStep: the optimizer steps on any gradients.
ScalerStepAlways ==
    /\ Advance("scaler_step")
    /\ model' = OptimizerStep(model)
    /\ optimizer' = [optimizer EXCEPT !.steps = @ + 1]
    /\ UNCHANGED <<args, disk, run, status, error, resume_ckpt, state_dict,
                   start_iter, epoch_size, end_iter, next_it, iteration,
                   ema, prefetcher, train_mode, grads_finite, tosave>>

\* line 184: scaler.step(optimizer) steps only on finite gradients
ScalerStep ==
    /\ Advance("scaler_step")
    /\ IF grads_finite
       THEN /\ model' = OptimizerStep(model)
            /\ optimizer' = [optimizer EXCEPT !.steps = @ + 1]
       ELSE UNCHANGED <<model, optimizer>>
    /\ UNCHANGED <<args, disk, run, status, error, resume_ckpt, state_dict,
                   start_iter, epoch_size, end_iter, next_it, iteration,
                   ema, prefetcher, train_mode, grads_finite, tosave>>

\* line 185
ScalerUpdate ==
    /\ Advance("scaler_update")
    /\ UNCHANGED <<args, disk, run, status, error, resume_ckpt, state_dict,
                   start_iter, epoch_size, end_iter, next_it, iteration,
                   model, ema, optimizer, prefetcher, train_mode,
                   grads_finite, tosave>>

\* line 186
EmaUpdateStep ==
    /\ Advance("ema_update")
    /\ ema' = EmaUpdate(ema, model)
    /\ UNCHANGED <<args, disk, run, status, error, resume_ckpt, state_dict,
                   start_iter, epoch_size, end_iter, next_it, iteration,
                   model, optimizer, prefetcher, train_mode, grads_finite,
                   tosave>>

\* lines 187-202
Logging ==
    /\ Advance("logging")
    /\ UNCHANGED <<args, disk, run, status, error, resume_ckpt, state_dict,
                   start_iter, epoch_size, end_iter, next_it, iteration,
                   model, ema, optimizer, prefetcher, train_mode,
                   grads_finite, tosave>>

(***************************************************************************)
(* After the loop, line 205: save_model(ema_model.ema, iteration, "Final") *)
(***************************************************************************)
SaveFinalOpen ==
    /\ status = "running"
    /\ pc = "save_final"
    /\ IF iteration = Unbound
       THEN Raise("NameError")
       ELSE /\ SaveModelOpen(SavedWeights, iteration, "Final")
            /\ pc' = "saving_final"
            /\ events' = Append(events, Event("save_final"))
            /\ UNCHANGED <<args, run, status, error, resume_ckpt, state_dict,
                           start_iter, epoch_size, end_iter, next_it,
                           iteration, model, ema, optimizer, prefetcher,
                           train_mode, grads_finite>>
    /\ UNCHANGED <<testVars, pathVars>>

SaveFinalClose ==
    /\ status = "running"
    /\ pc = "saving_final"
    /\ SaveModelClose("Final")
    /\ pc' = "exit"
    /\ status' = "done"
    /\ UNCHANGED <<args, run, error, resume_ckpt, state_dict, start_iter,
                   epoch_size, end_iter, next_it, iteration, model, ema,
                   optimizer, prefetcher, train_mode, grads_finite, events>>
    /\ UNCHANGED <<testVars, pathVars>>

(***************************************************************************)
(* The process is terminated from outside: its memory is gone, the files   *)
(* stay as they are.                                                       *)
(***************************************************************************)
Kill ==
    /\ status = "running"
    /\ status' = "killed"
    /\ error' = "None"
    /\ pc' = "none"
    /\ resume_ckpt' = "None"
    /\ state_dict' = Absent
    /\ start_iter' = Unbound
    /\ epoch_size' = Unbound
    /\ end_iter' = Unbound
    /\ next_it' = Unbound
    /\ iteration' = Unbound
    /\ model' = InitWeights
    /\ ema' = InitWeights
    /\ optimizer' = NewOptimizer
    /\ prefetcher' = Unbound
    /\ train_mode' = FALSE
    /\ grads_finite' = TRUE
    /\ tosave' = NoTosave
    /\ events' = <<>>
    /\ UNCHANGED <<args, disk, run>>
    /\ UNCHANGED <<testVars, pathVars>>

TrainNext ==
    \/ Start
    \/ ForNext
    \/ EpochCheck
    \/ SaveCkptOpen
    \/ SaveCkptClose
    \/ NewPrefetcher
    \/ ModelTrain
    \/ AdjustLR
    \/ Fetch
    \/ Forward
    \/ ZeroGrad
    \/ Backward
    \/ ScalerStep
    \/ ScalerUpdate
    \/ EmaUpdateStep
    \/ Logging
    \/ SaveFinalOpen
    \/ SaveFinalClose
    \/ Kill

TrainSpec == TrainInit /\ [][TrainNext]_vars

\* The statements of a running process: everything but its start and its
\* termination from outside.
TrainStep ==
    \/ ForNext
    \/ EpochCheck
    \/ SaveCkptOpen
    \/ SaveCkptClose
    \/ NewPrefetcher
    \/ ModelTrain
    \/ AdjustLR
    \/ Fetch
    \/ Forward
    \/ ZeroGrad
    \/ Backward
    \/ ScalerStep
    \/ ScalerUpdate
    \/ EmaUpdateStep
    \/ Logging
    \/ SaveFinalOpen
    \/ SaveFinalClose

\* A running process is not suspended for ever: it executes its next
\* statement unless it is terminated.
FairTrainSpec == TrainSpec /\ WF_vars(TrainStep)

(***************************************************************************)
(* Properties of train.py.                                                 *)
(***************************************************************************)
EventsOf(op) == {n \in DOMAIN events : events[n].op = op}

\* The iterations of the current run that are fully completed: optimizer
\* step and EMA update done.
Completed == Cardinality(EventsOf("ema_update"))

LoopOver == pc \in {"save_final", "saving_final", "exit"}

\* C1: every training run whose iteration loop is over ends by writing
\* exactly one Final checkpoint that holds the EMA weights, without error;
\* also when the loop had nothing to execute (end_iter = 0, or a resumed run
\* with start_iter >= end_iter).
C1_LoopOverEndsWithFinal ==
    (LoopOver /\ status \in {"done", "crashed"}) =>
        /\ status = "done"
        /\ Cardinality(EventsOf("save_final")) = 1
        /\ disk["Final"].state = "complete"
        /\ disk["Final"].model = ema

\* C2: a run resumed from a checkpoint that save_model wrote completely
\* has a prefetcher before its first prefetcher.next() and never ends with
\* an error.
C2_WrittenCheckpointIsResumable ==
    (resume_ckpt # "None" /\ state_dict.state = "complete") =>
        /\ pc = "fetch" => prefetcher # Unbound
        /\ status # "crashed"

\* C3: whenever the training process has been terminated, every checkpoint
\* file is absent or complete, never partially written.
C3_NoPartialFileAfterKill ==
    status = "killed" => \A s \in Suffixes : disk[s].state # "partial"

\* C4: in a run started from scratch, a checkpoint that has just been
\* written stores the number of iterations completed so far: the CKPT of
\* an epoch boundary stores that boundary, the Final checkpoint end_iter.
C4_IterationFieldCountsCompleted ==
    resume_ckpt = "None" =>
        /\ pc = "new_prefetcher" => disk["CKPT"].iteration = Completed
        /\ status = "done" =>
              /\ disk["Final"].iteration = Completed
              /\ disk["Final"].iteration = end_iter

Resumed == resume_ckpt # "None" /\ state_dict.state = "complete"

\* C5: a run resumed from a checkpoint with iteration field k enters its
\* loop at k with the stored weights and optimizer state, and executes no
\* statement, in particular no CKPT save, of an iteration below k.
C5_ResumeStartsAtStoredIteration ==
    Resumed =>
        /\ start_iter = state_dict.iteration
        /\ \A n \in DOMAIN events : events[n].it >= state_dict.iteration
        /\ events # <<>> => events[1].it = state_dict.iteration
        /\ (pc = "for" /\ events = <<>>) =>
              /\ next_it = state_dict.iteration
              /\ model = state_dict.model
              /\ optimizer = state_dict.optimizer

\* C5 witness: a run resumed at k > 0 has completed an iteration.
C5_Witness ==
    /\ Resumed
    /\ state_dict.iteration > 0
    /\ Completed > 0

\* C6: CKPT saves happen at the executed iterations with
\* iteration % epoch_size = 0 and at no other; each writes the EMA weights
\* and is followed, before the training step of that iteration, by a fresh
\* prefetcher and then the switch to training mode.
C6_CkptExactlyAtEpochBoundaries ==
    /\ \A n \in DOMAIN events :
          events[n].op \in {"save_ckpt", "new_prefetcher", "model_train"}
              => events[n].it % epoch_size = 0
    /\ \A n \in DOMAIN events :
          events[n].op = "adjust_lr" =>
              IF events[n].it % epoch_size = 0
              THEN /\ n > 3
                   /\ events[n - 3] = [op |-> "save_ckpt", it |-> events[n].it]
                   /\ events[n - 2] = [op |-> "new_prefetcher", it |-> events[n].it]
                   /\ events[n - 1] = [op |-> "model_train", it |-> events[n].it]
              ELSE n > 1 => events[n - 1].op = "logging"
    /\ pc = "saving_ckpt" => tosave.model = ema
    /\ pc = "new_prefetcher" =>
          /\ disk["CKPT"].state = "complete"
          /\ disk["CKPT"].model = ema
    /\ (pc = "adjust_lr" /\ iteration % epoch_size = 0) =>
          /\ train_mode
          /\ prefetcher = NumBatches(args)

\* C6 witness: a CKPT written at a later epoch boundary, where the EMA
\* weights differ from the live ones, after iterations without a save.
C6_Witness ==
    /\ pc = "new_prefetcher"
    /\ iteration > 0
    /\ epoch_size > 1
    /\ ema # model

ClaimedStepOrder ==
    <<"adjust_lr", "fetch", "forward", "zero_grad", "backward",
      "scaler_step", "scaler_update", "ema_update">>

\* C7: the statements of an iteration run in the order learning rate,
\* fetch, forward, zero_grad, backward, optimizer step, scaler update, EMA
\* update, each directly after the one before it (so no checkpoint is
\* written between the optimizer step and the EMA update); an iteration
\* updates the EMA exactly once.
C7_IterationStepOrder ==
    /\ \A n \in DOMAIN events : \A k \in 2..Len(ClaimedStepOrder) :
          events[n].op = ClaimedStepOrder[k] =>
              /\ n > 1
              /\ events[n - 1] =
                     [op |-> ClaimedStepOrder[k - 1], it |-> events[n].it]
    /\ \A n, m \in EventsOf("ema_update") :
          events[n].it = events[m].it => n = m
    /\ \A n \in EventsOf("logging") :
          /\ n > 1
          /\ events[n - 1] = [op |-> "ema_update", it |-> events[n].it]

\* C7 witness: two iterations are complete, one of them with a skipped
\* optimizer step.
C7_Witness ==
    /\ Completed >= 2
    /\ \E n \in EventsOf("logging") : events[n].it = args.overflow_iter

(***************************************************************************)
(* test.py: the evaluation program.                                        *)
(***************************************************************************)
Classes == 0..(NumClasses - 1)

Images == 0..(test_args.num_images - 1)

TestConfigs ==
    [num_images : 0..MaxImages, seq_matcher : BOOLEAN, vis : BOOLEAN,
     eval_thresh : 0..MaxScore, seed_dets : 0..MaxDets,
     seed_score : 0..MaxScore]

\* Scores are counted in quarters; line 161 draws a detection whose score
\* is above 0.25, one quarter.
VisThresh == 1

Colours == 0..MaxColour

\* A box (x1, y1, x2, y2) of the detection stream.
Box(x) == <<x, x, x + 2, x + 2>>

\* lines 116-138: what post_process returns for image n of the test set,
\* boxes of shape (rows, 4) and scores of shape (rows, num_classes).  The
\* test set is a stream in which the number of detections and their scores
\* change from image to image and every box moves back and forth.
PostProcess(a, n) ==
    LET rows == (a.seed_dets + n) % (MaxDets + 1)
    IN  [boxes |-> [k \in 1..rows |-> Box(3 * k + (n % 2))],
         scores |-> [k \in 1..rows |->
                        [j \in Classes |->
                            (a.seed_score + n + k + j) % (MaxScore + 1)]]]

\* An entry of all_boxes: None, or an array with its shape.
NoneEntry == [none |-> TRUE]

Array(rows, cols, data) == [shape |-> <<rows, cols>>, data |-> data]

\* SeqBoxMatcher(): no track yet.
NewMatcher == [exists |-> TRUE, tracks |-> <<>>]

\* Two boxes overlap by more than the matching threshold.
Overlaps(b, c) == b[1] - c[1] \in {-1, 0, 1}

Distance(b, c) == IF b[1] >= c[1] THEN b[1] - c[1] ELSE c[1] - b[1]

\* SeqBoxMatcher.update(boxes, scores): a detection that overlaps a track
\* comes back with the track's box and the mean of the track's and its own
\* scores, any other detection comes back as it is; the rows returned are
\* the tracks of the next call.
MatcherUpdate(m, d) ==
    LET Match(k) ==
            {t \in 1..Len(m.tracks) : Overlaps(m.tracks[t].box, d.boxes[k])}
        Best(k) ==
            CHOOSE t \in Match(k) : \A u \in Match(k) :
                \/ Distance(m.tracks[t].box, d.boxes[k])
                       < Distance(m.tracks[u].box, d.boxes[k])
                \/ /\ Distance(m.tracks[t].box, d.boxes[k])
                          = Distance(m.tracks[u].box, d.boxes[k])
                   /\ t <= u
        Out(k) ==
            IF Match(k) = {}
            THEN [box |-> d.boxes[k], scores |-> d.scores[k]]
            ELSE [box |-> m.tracks[Best(k)].box,
                  scores |-> [j \in Classes |->
                      (m.tracks[Best(k)].scores[j] + d.scores[k][j]) \div 2]]
        out == [k \in 1..Len(d.boxes) |-> Out(k)]
    IN  [matcher |-> [exists |-> TRUE, tracks |-> out],
         result |-> [boxes |-> [k \in 1..Len(out) |-> out[k].box],
                     scores |-> [k \in 1..Len(out) |-> out[k].scores]]]

TestEvent(op) == [op |-> op, i |-> i]

TestInit ==
    /\ test_args \in TestConfigs
    /\ NoEvaluation
    /\ args = [len_dataset |-> 0, batch_size |-> 1, max_epoch |-> 0,
               overflow_iter |-> Unbound]
    /\ disk = [s \in Suffixes |-> Absent]
    /\ run = 0
    /\ status = "idle"
    /\ NoProcess
    /\ NoPaths

\* lines 48-112: configuration, dataset, network, the weights of
\* args.trained_model (started without --trained_model; the file is taken
\* to exist), and the setup of the loop.
TestStart ==
    /\ test_status = "idle"
    /\ IF ~IsKnownDataset(name_args.dataset)
       THEN \* line 64, before Detector(...) and torch.load
            /\ test_status' = "crashed"
            /\ test_error' = "NotImplementedError"
            /\ test_pc' = "dataset"
            /\ UNCHANGED <<all_boxes, box_matcher, test_events, rgbs, next_i,
                           trained_model>>
       ELSE /\ test_status' = "running"
            /\ test_error' = "None"
            /\ trained_model' = DefaultTrainedModel(name_args)
            /\ all_boxes' = [j \in Classes |-> [n \in Images |-> NoneEntry]]
            /\ box_matcher' = IF test_args.seq_matcher
                              THEN NewMatcher
                              ELSE NoMatcher
            /\ test_events' = IF test_args.seq_matcher
                              THEN <<TestEvent("new_matcher")>>
                              ELSE <<>>
            /\ rgbs' = <<>>
            /\ next_i' = 0
            /\ test_pc' = "for"
    /\ UNCHANGED <<test_args, i, boxes_scores, fed, matcher_log, scorer_log>>
    /\ UNCHANGED <<trainVars, name_args, save_path>>

TestRaise(err) ==
    /\ test_status' = "crashed"
    /\ test_error' = err
    /\ UNCHANGED <<test_args, test_pc, next_i, i, all_boxes, box_matcher,
                   rgbs, boxes_scores, fed, matcher_log, scorer_log,
                   test_events>>

\* line 113: for i in range(num_images)
ForImage ==
    /\ test_status = "running"
    /\ test_pc = "for"
    /\ IF next_i < test_args.num_images
       THEN /\ i' = next_i
            /\ next_i' = next_i + 1
            /\ test_pc' = "post_process"
       ELSE /\ test_pc' = "evaluate"
            /\ UNCHANGED <<i, next_i>>
    /\ UNCHANGED <<test_args, test_status, test_error, all_boxes,
                   box_matcher, rgbs, boxes_scores, fed, matcher_log,
                   scorer_log, test_events>>
    /\ UNCHANGED <<trainVars, pathVars>>

\* lines 116-138: image, inference, post_process
PostProcessStep ==
    /\ test_status = "running"
    /\ test_pc = "post_process"
    /\ boxes_scores' = PostProcess(test_args, i)
    /\ test_pc' = "seq_match"
    /\ test_events' = Append(test_events, TestEvent("post_process"))
    /\ UNCHANGED <<test_args, test_status, test_error, next_i, i, all_boxes,
                   box_matcher, rgbs, fed, matcher_log, scorer_log>>
    /\ UNCHANGED <<trainVars, pathVars>>

\* Faulty variant of SeqMatchResult: what update returns is dropped.
SeqMatchResultDropped(raw, returned) == raw

\* line 140: boxes, scores = box_matcher.update(boxes, scores)
SeqMatchResult(raw, returned) == returned

\* lines 139-140
SeqMatch ==
    /\ test_status = "running"
    /\ test_pc = "seq_match"
    /\ IF test_args.seq_matcher
       THEN /\ box_matcher' = MatcherUpdate(box_matcher, boxes_scores).matcher
            /\ boxes_scores' =
                   SeqMatchResult(boxes_scores,
                       MatcherUpdate(box_matcher, boxes_scores).result)
            /\ matcher_log' =
                   Append(matcher_log,
                       [i |-> i, input |-> boxes_scores,
                        output |-> MatcherUpdate(box_matcher, boxes_scores).result])
       ELSE UNCHANGED <<box_matcher, boxes_scores, matcher_log>>
    /\ test_pc' = "accumulate"
    /\ UNCHANGED <<test_args, test_status, test_error, next_i, i, all_boxes,
                   rgbs, fed, scorer_log, test_events>>
    /\ UNCHANGED <<trainVars, pathVars>>

\* Faulty variant of Qualifies: a score equal to the threshold is kept.
QualifiesAtThreshold(score, thresh) == score >= thresh

\* line 142: scores[:, j] > args.eval_thresh
Qualifies(score, thresh) == score > thresh

\* line 142: inds, the qualifying rows in increasing order
Inds(scores, j, thresh) ==
    SelectSeq([k \in 1..Len(scores) |-> k],
              LAMBDA k : Qualifies(scores[k][j], thresh))

\* lines 143-146: the entry of class j
ClassDets(bs, j, thresh) ==
    LET inds == Inds(bs.scores, j, thresh)
    IN  IF Len(inds) = 0
        THEN Array(0, 5, <<>>)
        ELSE Array(Len(inds), Len(bs.boxes[inds[1]]) + 1,
                   [k \in 1..Len(inds) |->
                       Append(bs.boxes[inds[k]], bs.scores[inds[k]][j])])

\* lines 141-147
Accumulate ==
    /\ test_status = "running"
    /\ test_pc = "accumulate"
    /\ all_boxes' =
           [j \in Classes |->
               [all_boxes[j] EXCEPT
                   ![i] = ClassDets(boxes_scores, j, test_args.eval_thresh)]]
    /\ fed' = Append(fed, [i |-> i, dets |-> boxes_scores])
    /\ test_pc' = "vis"
    /\ test_events' = Append(test_events, TestEvent("accumulate"))
    /\ UNCHANGED <<test_args, test_status, test_error, next_i, i,
                   box_matcher, rgbs, boxes_scores, matcher_log, scorer_log>>
    /\ UNCHANGED <<trainVars, pathVars>>

\* Faulty variant of NewlyDrawn: the test "j not in rgbs" is missing, a
\* class gets a colour at every image it is drawn in.
NewlyDrawnAgain ==
    {j \in Classes :
        \E k \in 1..Len(all_boxes[j][i].data) :
            all_boxes[j][i].data[k][5] > VisThresh}

\* lines 151-166: the classes that get their colour at this image
NewlyDrawn ==
    {j \in Classes \ DOMAIN rgbs :
        \E k \in 1..Len(all_boxes[j][i].data) :
            all_boxes[j][i].data[k][5] > VisThresh}

\* lines 150-200
Visualize ==
    /\ test_status = "running"
    /\ test_pc = "vis"
    /\ IF test_args.vis
       THEN /\ \E col \in [NewlyDrawn -> Colours] :
                   rgbs' = [j \in DOMAIN rgbs \cup NewlyDrawn |->
                               IF j \in NewlyDrawn THEN col[j] ELSE rgbs[j]]
            /\ test_events' = Append(test_events, TestEvent("imwrite"))
       ELSE UNCHANGED <<rgbs, test_events>>
    /\ test_pc' = "logging"
    /\ UNCHANGED <<test_args, test_status, test_error, next_i, i, all_boxes,
                   box_matcher, boxes_scores, fed, matcher_log, scorer_log>>
    /\ UNCHANGED <<trainVars, pathVars>>

\* lines 203-210: i % math.floor(num_images / 10) == 0 and i > 0
TestLogging ==
    /\ test_status = "running"
    /\ test_pc = "logging"
    /\ IF test_args.num_images \div 10 = 0
       THEN TestRaise("ZeroDivisionError")
       ELSE /\ test_events' =
                   IF i % (test_args.num_images \div 10) = 0 /\ i > 0
                   THEN Append(test_events, TestEvent("report"))
                   ELSE test_events
            /\ test_pc' = "for"
            /\ UNCHANGED <<test_args, test_status, test_error, next_i, i,
                           all_boxes, box_matcher, rgbs, boxes_scores, fed,
                           matcher_log, scorer_log>>
    /\ UNCHANGED <<trainVars, pathVars>>

\* line 213: testset.evaluate_detections(all_boxes)
Evaluate ==
    /\ test_status = "running"
    /\ test_pc = "evaluate"
    /\ scorer_log' = Append(scorer_log, all_boxes)
    /\ test_status' = "done"
    /\ test_pc' = "exit"
    /\ UNCHANGED <<test_args, test_error, next_i, i, all_boxes, box_matcher,
                   rgbs, boxes_scores, fed, matcher_log, test_events>>
    /\ UNCHANGED <<trainVars, pathVars>>

TestNext ==
    \/ TestStart
    \/ ForImage
    \/ PostProcessStep
    \/ SeqMatch
    \/ Accumulate
    \/ Visualize
    \/ TestLogging
    \/ Evaluate

TestSpec == TestInit /\ [][TestNext]_vars

(***************************************************************************)
(* The file names alone: one configuration, the path save_model builds for *)
(* it and the path test.py falls back to.                                  *)
(***************************************************************************)
PathInit ==
    /\ name_args \in NameConfigs
    /\ save_path = NoSavePath
    /\ trained_model = <<>>
    /\ args = [len_dataset |-> 0, batch_size |-> 1, max_epoch |-> 0,
               overflow_iter |-> Unbound]
    /\ disk = [s \in Suffixes |-> Absent]
    /\ run = 0
    /\ status = "idle"
    /\ NoProcess
    /\ test_args = [num_images |-> 0, seq_matcher |-> FALSE, vis |-> FALSE,
                    eval_thresh |-> 0, seed_dets |-> 0, seed_score |-> 0]
    /\ NoEvaluation

\* train.py, lines 59-70, for one call of save_model
FormatSavePath(suffix) ==
    /\ save_path' = [suffix |-> suffix, path |-> SavePath(name_args, suffix)]
    /\ UNCHANGED <<name_args, trained_model>>
    /\ UNCHANGED <<trainVars, testVars>>

\* test.py, lines 76-88, started without --trained_model
SetTrainedModel ==
    /\ trained_model = <<>>
    /\ trained_model' = DefaultTrainedModel(name_args)
    /\ UNCHANGED <<name_args, save_path>>
    /\ UNCHANGED <<trainVars, testVars>>

PathNext ==
    \/ \E suffix \in Suffixes : FormatSavePath(suffix)
    \/ SetTrainedModel

PathSpec == PathInit /\ [][PathNext]_vars

(***************************************************************************)
(* Either program.                                                         *)
(***************************************************************************)
Init == TrainInit \/ TestInit

Next == TrainNext \/ TestNext

Spec == Init /\ [][Next]_vars

(***************************************************************************)
(* Properties of test.py.                                                  *)
(***************************************************************************)
\* The image indices in the order in which they were thresholded.
ProcessedOrder == [n \in 1..Len(fed) |-> fed[n].i]

\* C8: for every dataset size the evaluation never aborts, and once it is
\* over every image index 0..num_images-1 has been processed exactly once
\* in increasing order and the scorer has been called exactly once, with
\* the full all_boxes.
C8_EveryImageThenScoredOnce ==
    /\ test_status # "crashed"
    /\ test_status = "done" =>
          /\ ProcessedOrder = [n \in 1..test_args.num_images |-> n - 1]
          /\ scorer_log = <<all_boxes>>

\* The detections of d whose class-j score is above the threshold.
Kept(d, j) ==
    {k \in 1..Len(d.scores) : d.scores[k][j] > test_args.eval_thresh}

\* The r-th of them, counted in the order of the detections.
KeptAt(d, j, r) ==
    CHOOSE k \in Kept(d, j) :
        Cardinality({u \in Kept(d, j) : u <= k}) = r

\* C9: once image n is processed, for every class j the entry
\* all_boxes[j][n] is not None, has shape (0, 5) when no detection has a
\* class-j score above eval_thresh and otherwise one row per such
\* detection, its four coordinates followed by its class-j score, so every
\* stored score is above eval_thresh; this stays so for the rest of the run
\* (the entry is never changed), and no entry handed to the scorer is None.
C9_EntriesAreThresholdedDetections ==
    /\ \A n \in DOMAIN fed : \A j \in Classes :
          LET e == all_boxes[j][fed[n].i]
              d == fed[n].dets
          IN  /\ e # NoneEntry
              /\ e.shape = <<Cardinality(Kept(d, j)), 5>>
              /\ Len(e.data) = Cardinality(Kept(d, j))
              /\ \A r \in 1..Len(e.data) :
                    /\ e.data[r] =
                           d.boxes[KeptAt(d, j, r)]
                               \o <<d.scores[KeptAt(d, j, r)][j]>>
                    /\ e.data[r][5] > test_args.eval_thresh
    /\ \A m \in DOMAIN scorer_log : \A j \in Classes : \A n \in Images :
          scorer_log[m][j][n] # NoneEntry

\* C9 witness: the scorer has been called on a run that holds an empty
\* entry, an entry of two rows, and a detection left out because its score
\* equals the threshold.
C9_Witness ==
    /\ test_status = "done"
    /\ scorer_log # <<>>
    /\ \E n \in Images : \E j \in Classes : all_boxes[j][n].shape = <<0, 5>>
    /\ \E n \in Images : \E j \in Classes : all_boxes[j][n].shape = <<2, 5>>
    /\ \E n \in DOMAIN fed : \E j \in Classes :
          \E k \in 1..Len(fed[n].dets.scores) :
              fed[n].dets.scores[k][j] = test_args.eval_thresh

MatcherEvents == {n \in DOMAIN test_events : test_events[n].op = "new_matcher"}

\* C10: with sequential matching, one matcher is constructed before the
\* first image, update is called once per image, in increasing image
\* order, on the output of post_process, and the image is thresholded and
\* accumulated from what update returned; without it, from the output of
\* post_process itself.
C10_MatcherResultIsAccumulated ==
    /\ (test_args.seq_matcher /\ test_status # "idle") =>
          /\ box_matcher.exists
          /\ MatcherEvents = {1}
          /\ \A n \in DOMAIN matcher_log :
                /\ matcher_log[n].i = n - 1
                /\ matcher_log[n].input = PostProcess(test_args, n - 1)
          /\ Len(fed) <= Len(matcher_log)
          /\ Len(matcher_log) <= Len(fed) + 1
          /\ \A n \in DOMAIN fed :
                /\ fed[n].i = matcher_log[n].i
                /\ fed[n].dets = matcher_log[n].output
                /\ \A j \in Classes :
                      all_boxes[j][fed[n].i].shape[1]
                          = Cardinality(Kept(matcher_log[n].output, j))
    /\ ~test_args.seq_matcher =>
          /\ ~box_matcher.exists
          /\ MatcherEvents = {}
          /\ matcher_log = <<>>
          /\ \A n \in DOMAIN fed : \A j \in Classes :
                /\ fed[n].dets = PostProcess(test_args, fed[n].i)
                /\ all_boxes[j][fed[n].i].shape[1]
                       = Cardinality(Kept(PostProcess(test_args, fed[n].i), j))

\* C10 witness: the scorer is reached on a run in which update changed
\* the boxes and scores of an image.
C10_Witness ==
    /\ test_args.seq_matcher
    /\ test_status = "done"
    /\ \E n \in DOMAIN matcher_log :
          /\ matcher_log[n].output.boxes # matcher_log[n].input.boxes
          /\ matcher_log[n].output.scores # matcher_log[n].input.scores
          /\ \E j \in Classes :
                Kept(matcher_log[n].output, j) # Kept(matcher_log[n].input, j)

\* The images written to vis/ so far.
Visualized ==
    {test_events[n].i : n \in {m \in DOMAIN test_events :
                                   test_events[m].op = "imwrite"}}

\* Class j has a drawn detection in image n: a kept row scoring above 0.25.
DrawnIn(j, n) ==
    \E k \in 1..Len(all_boxes[j][n].data) :
        all_boxes[j][n].data[k][5] > VisThresh

\* One step of the evaluation and the colours of the classes.
C17_StepOfColours ==
    /\ \A j \in DOMAIN rgbs : j \in DOMAIN rgbs' /\ rgbs'[j] = rgbs[j]
    /\ \A j \in DOMAIN rgbs' \ DOMAIN rgbs :
           /\ test_args.vis
           /\ test_pc = "vis"
           /\ DrawnIn(j, i)
           /\ \A n \in Visualized : ~DrawnIn(j, n)

\* C17: with visualization enabled, class j gets its colour only at the
\* first drawn detection of class j (score above 0.25); once rgbs[j] is
\* set it is never changed or removed, and a class that never has a
\* detection scoring above 0.25 never gets a colour.
C17_ColourSetOnceAtFirstDrawn ==
    /\ [](\A j \in Classes :
             j \in DOMAIN rgbs <=>
                 (test_args.vis /\ \E n \in Visualized : DrawnIn(j, n)))
    /\ [][C17_StepOfColours]_vars

C17_Witness ==
    /\ test_args.vis
    /\ test_status = "running"
    /\ DOMAIN rgbs = {1}
    /\ Cardinality({n \in Visualized : DrawnIn(1, n)}) > 1
    /\ Cardinality(Visualized) > 2

\* The position in events of the last DataLoader construction, 0 if none.
LastLoader ==
    IF EventsOf("new_prefetcher") = {}
    THEN 0
    ELSE CHOOSE n \in EventsOf("new_prefetcher") :
             \A m \in EventsOf("new_prefetcher") : m <= n

\* The number of batches taken from the current loader.
FetchedFromLoader ==
    Cardinality({n \in EventsOf("fetch") : n > LastLoader})

\* The loop is about to decide whether this iteration begins an epoch, and
\* a loader of this run exists.
AtEpochDecision ==
    /\ status = "running"
    /\ pc = "epoch_check"
    /\ prefetcher # Unbound

\* C16 as claimed: a new epoch begins exactly on the iteration that follows
\* the consumption of the last batch of the current loader, for every
\* dataset length and batch size.
C16_EpochBeginsAtExhaustion ==
    AtEpochDecision => (iteration % epoch_size = 0 <=> prefetcher = 0)

\* C16: a new epoch begins exactly on the iteration that follows the
\* consumption of epoch_size = floor(len/batch) batches of the current
\* loader; the loader is exhausted at that point exactly when the dataset
\* length is a multiple of the batch size, otherwise its last, smaller
\* batch is left unconsumed.
C16_EpochBeginsAfterEpochSizeBatches ==
    AtEpochDecision =>
        /\ iteration % epoch_size = 0 <=> FetchedFromLoader = epoch_size
        /\ iteration % epoch_size = 0 =>
               /\ prefetcher = 0 <=> args.len_dataset % args.batch_size = 0
               /\ prefetcher = 1 <=> args.len_dataset % args.batch_size # 0

C16_Witness ==
    /\ AtEpochDecision
    /\ iteration % epoch_size = 0
    /\ args.len_dataset % args.batch_size # 0
    /\ prefetcher = 1
    /\ FetchedFromLoader = 1

\* The batches a loader over the dataset provides, each by the position of
\* its first image: the last one may hold fewer than batch_size images.
BatchStarts ==
    {n \in 0..(args.len_dataset - 1) : n % args.batch_size = 0}

\* The run is a fresh one or was resumed at an epoch boundary.
StartsAtBoundary ==
    /\ status \in {"running", "done", "crashed"}
    /\ epoch_size > 0
    /\ start_iter # Unbound
    /\ start_iter % epoch_size = 0

\* C19: the loop never fetches from an exhausted prefetcher: in a fresh run
\* and in a run resumed at an epoch boundary, the number of
\* prefetcher.next() calls between two consecutive epoch boundaries is
\* exactly epoch_size = floor(len/batch), which never exceeds the number of
\* batches the loader provides.
C19_NeverFetchesFromExhausted ==
    StartsAtBoundary =>
        /\ ~(status = "crashed" /\ pc = "fetch")
        /\ (status = "running" /\ pc = "fetch") => prefetcher > 0
        /\ prefetcher # Unbound =>
               /\ FetchedFromLoader <= epoch_size
               /\ epoch_size <= Cardinality(BatchStarts)
               /\ FetchedFromLoader + prefetcher = Cardinality(BatchStarts)
        /\ AtEpochDecision =>
               (iteration % epoch_size = 0 => FetchedFromLoader = epoch_size)

C19_Witness ==
    /\ StartsAtBoundary
    /\ Resumed
    /\ AtEpochDecision
    /\ iteration > start_iter
    /\ iteration % epoch_size = 0
    /\ epoch_size > 1

\* C18: resuming does not lose trained weights: in a resumed run in which no
\* iteration has completed yet the EMA weights equal the model weights
\* stored in the checkpoint, so the first CKPT save of that run writes a
\* model field equal to the model field of the checkpoint it resumed from.
C18_ResumeKeepsTrainedWeights ==
    (Resumed /\ status = "running" /\ Completed = 0) =>
        /\ ema = state_dict.model
        /\ pc = "saving_ckpt" => tosave.model = state_dict.model
        /\ pc = "new_prefetcher" => disk["CKPT"].model = state_dict.model

\* The iteration whose gradients are not finite is being executed.
InSkippedIteration ==
    /\ status = "running"
    /\ iteration # Unbound
    /\ iteration = args.overflow_iter

\* One step of the process inside the iteration it is executing.
C15_StepOfIteration ==
    /\ (InSkippedIteration /\ iteration' = iteration) =>
           /\ model' = model
           /\ optimizer'.steps = optimizer.steps
    /\ (InSkippedIteration /\ pc = "ema_update" /\ pc' = "logging") =>
           /\ ema' # ema
           /\ events' = Append(events, Event("ema_update"))
    /\ (InSkippedIteration /\ pc = "for" /\ pc' = "epoch_check") =>
           iteration' = iteration + 1
    /\ (status = "running" /\ pc = "scaler_step" /\ pc' = "scaler_update"
            /\ iteration # args.overflow_iter) =>
           /\ model' # model
           /\ optimizer'.steps = optimizer.steps + 1

\* C15: an optimizer step skipped for non-finite gradients is not an error:
\* the live weights are unchanged by that iteration, the iteration counter
\* advances by one, the EMA update is still performed, later iterations
\* step normally, and the run still reaches its Final save.
C15_SkippedStepIsNotAnError ==
    /\ [](~grads_finite => status \in {"running", "done"})
    /\ [][C15_StepOfIteration]_vars
    /\ (~grads_finite) ~> (status \in {"done", "killed"})

C15_Witness ==
    /\ status = "done"
    /\ resume_ckpt = "None"
    /\ args.overflow_iter = 0
    /\ iteration = 1
    /\ optimizer.steps = 1
    /\ disk["Final"].state = "complete"

(***************************************************************************)
(* Training with one more file to resume from: a persisted structure that  *)
(* save_model did not write, holding any subset of the three fields.       *)
(***************************************************************************)
OtherFile(keys) ==
    [k \in {"state"} \cup keys |->
        CASE k = "state" -> "complete"
          [] k = "model" -> OptimizerStep(InitWeights)
          [] k = "optimizer" -> [steps |-> 1, lr_iter |-> 0]
          [] k = "iteration" -> 0]

OtherFiles == {OtherFile(keys) : keys \in SUBSET {"model", "optimizer", "iteration"}}

LoadConfigs == {c \in Configs : c.overflow_iter = Unbound}

LoadInit ==
    /\ args \in LoadConfigs
    /\ \E f \in OtherFiles :
           disk = [s \in Suffixes \cup {"Other"} |->
                      IF s = "Other" THEN f ELSE Absent]
    /\ run = 0
    /\ status = "idle"
    /\ NoProcess
    /\ test_args = [num_images |-> 0, seq_matcher |-> FALSE, vis |-> FALSE,
                    eval_thresh |-> 0, seed_dets |-> 0, seed_score |-> 0]
    /\ NoEvaluation
    /\ NoPaths

LoadSpec == LoadInit /\ [][TrainNext]_vars

\* C13: resuming from a persisted structure that lacks one of model,
\* optimizer, iteration fails at load time: the run aborts before any
\* training iteration and before any checkpoint is written.
C13_MissingFieldFailsAtLoad ==
    (state_dict # Absent
        /\ {"model", "optimizer", "iteration"} \ DOMAIN state_dict # {}) =>
        /\ status = "crashed"
        /\ error = "KeyError"
        /\ pc = "resume"
        /\ start_iter = Unbound
        /\ iteration = Unbound
        /\ events = <<>>
        /\ tosave = NoTosave

C13_Witness ==
    /\ status = "crashed"
    /\ error = "KeyError"
    /\ DOMAIN state_dict = {"state", "model", "optimizer"}
    /\ model = state_dict.model

(***************************************************************************)
(* Both programs under every dataset name.  Each behaviour exercises one   *)
(* program; the other one is given an empty dataset.                       *)
(***************************************************************************)
DatasetTrainConfigs == {c \in Configs : c.overflow_iter = Unbound}

DatasetTestConfigs ==
    {c \in TestConfigs : /\ c.num_images \in {0, MaxImages}
                         /\ c.eval_thresh = 0
                         /\ c.seed_dets = MaxDets
                         /\ c.seed_score = MaxScore}

DatasetInit ==
    /\ name_args \in {[DefaultNames EXCEPT !.dataset = d] : d \in Datasets}
    /\ save_path = NoSavePath
    /\ trained_model = <<>>
    /\ \/ /\ args \in DatasetTrainConfigs
          /\ test_args = [num_images |-> 0, seq_matcher |-> FALSE,
                          vis |-> FALSE, eval_thresh |-> 0, seed_dets |-> 0,
                          seed_score |-> 0]
       \/ /\ args = [len_dataset |-> 0, batch_size |-> 1, max_epoch |-> 0,
                     overflow_iter |-> Unbound]
          /\ test_args \in DatasetTestConfigs
    /\ disk = [s \in Suffixes |-> Absent]
    /\ run = 0
    /\ status = "idle"
    /\ NoProcess
    /\ NoEvaluation

DatasetSpec == DatasetInit /\ [][Next]_vars

\* C12: an unknown dataset name (not COCO, VOC or XML) aborts the run, in
\* train.py and in test.py, at the dataset selection: before a model is
\* built, before a checkpoint is read or written, before any training
\* iteration and before any image is evaluated.
C12_UnknownDatasetAborts ==
    name_args.dataset \notin {T_COCO, T_VOC, T_XML} =>
        /\ status \in {"idle", "crashed"}
        /\ status = "crashed" =>
               error = "NotImplementedError" /\ pc = "dataset"
        /\ epoch_size = Unbound
        /\ model = InitWeights /\ ema = InitWeights
        /\ optimizer = NewOptimizer
        /\ state_dict = Absent
        /\ tosave = NoTosave
        /\ \A s \in Suffixes : disk[s] = Absent
        /\ events = <<>>
        /\ iteration = Unbound
        /\ test_status \in {"idle", "crashed"}
        /\ test_status = "crashed" =>
               test_error = "NotImplementedError" /\ test_pc = "dataset"
        /\ trained_model = <<>>
        /\ all_boxes = <<>>
        /\ box_matcher = NoMatcher
        /\ test_events = <<>>
        /\ fed = <<>>
        /\ scorer_log = <<>>
        /\ i = Unbound

C12_Witness ==
    /\ name_args.dataset \notin {T_COCO, T_VOC, T_XML}
    /\ status = "crashed"
    /\ run = MaxRuns
    /\ test_status = "crashed"

(***************************************************************************)
(* Properties of the file names.                                           *)
(***************************************************************************)
\* The fields of the configuration that the claim says tell paths apart.
SameNaming(a, b) ==
    /\ a.dataset = b.dataset
    /\ a.neck = b.neck
    /\ a.backbone = b.backbone
    /\ a.image_size = b.image_size
    /\ a.anchor_size = b.anchor_size
    /\ LossMode(a) = LossMode(b)

\* C11: the path save_model builds depends only on save_folder, dataset,
\* neck, backbone, image_size, anchor_size, loss mode and suffix, and two
\* configurations with the same save folder and suffix that differ in at
\* least one of dataset, neck, backbone, image_size, anchor_size or loss
\* mode get different paths.
C11_PathIdentifiesConfiguration ==
    save_path # NoSavePath =>
        \A b \in NameConfigs :
            b.save_folder = name_args.save_folder =>
                (SameNaming(name_args, b)
                    <=> SavePath(b, save_path.suffix) = save_path.path)

\* C14: started without --trained_model, test.py loads from the path at
\* which train.py saves the Final checkpoint of the same configuration,
\* for both values of mutual_guide.
C14_DefaultPathIsFinalPath ==
    trained_model # <<>> => trained_model = SavePath(name_args, "Final")

====
